---- MODULE Spec2Model ----
(***************************************************************************)
(* A model of codes_sparsematrix.py: the SparseMatrix class (a dictionary  *)
(* of dictionaries), its three operators, and its text format.             *)
(*                                                                         *)
(* Python objects live in a store: `mats` holds the SparseMatrix           *)
(* instances, `heap` holds the inner (per-row) dictionaries, and a         *)
(* matrix's `data` maps a row key to the address of its inner dictionary.  *)
(* A Python dict is a sequence of <<key, value>> pairs with distinct keys, *)
(* in insertion order.  A str is a sequence of Unicode code points.        *)
(***************************************************************************)
EXTENDS Integers, Sequences, FiniteSets

VARIABLES
    store,    \* the objects: [mats, heap]
    calls,    \* the operator calls made so far, each with the store before it
    written,  \* per instance: the latest value set_element was given, per key
    sets,     \* the number of set_element calls the caller has made
    exists,   \* whether there is a file at the path
    file,     \* the text of the file, empty while there is no file
    saved,    \* the instance whose str() the file is, 0 when it is none's
    lines,    \* the lines the file was made of, as the writer meant them
    loaded    \* the latest from_file call: what it read and what it returned

vars == <<store, calls, written, sets, exists, file, saved, lines, loaded>>

\* ---------------------------------------------------------------- bounds

\* the number of set_element calls a caller makes on top of the operands
\* it starts with
MaxSets == 1
\* the number of lines a caller appends to a file
MaxLines == 4

\* the matrices a caller starts with, each as the set_element calls that
\* built it: an empty one, a row and a column whose product cancels, and the
\* two 2x2 operands of a worked example
OperandSet ==
    { [rows |-> 1, cols |-> 2, entries |-> <<>>],
      [rows |-> 1, cols |-> 2, entries |-> << <<0, 0, 1>>, <<0, 1, 1>> >>],
      [rows |-> 2, cols |-> 1, entries |-> << <<0, 0, 1>>, <<1, 0, -1>> >>],
      [rows |-> 2, cols |-> 2, entries |-> << <<0, 0, 1>>, <<1, 1, 2>> >>],
      [rows |-> 2, cols |-> 2, entries |-> << <<0, 0, 3>>, <<0, 1, 4>> >>] }
\* the row and column keys a caller passes to set_element
KeySet == {0, 1}
\* the values a caller passes to set_element
ValSet == {-1, 0, 1}
\* the coordinates get_element is asked for: in range, out of range, negative
QuerySet == -1 .. 2

\* -------------------------------------------------------------- Python dict

DictHas(d, k) == \E i \in 1..Len(d) : d[i][1] = k

DictIndex(d, k) == CHOOSE i \in 1..Len(d) : d[i][1] = k

\* d.get(k, default)
DictGet(d, k, default) == IF DictHas(d, k) THEN d[DictIndex(d, k)][2] ELSE default

\* d[k] = v: an existing key keeps its place, a new key goes last
DictSet(d, k, v) ==
    IF DictHas(d, k) THEN [d EXCEPT ![DictIndex(d, k)] = <<k, v>>]
    ELSE Append(d, <<k, v>>)

\* the keys of d in iteration order
DictKeys(d) == [i \in 1..Len(d) |-> d[i][1]]

\* ------------------------------------------------------------ SparseMatrix

EmptyStore == [mats |-> <<>>, heap |-> <<>>]

\* SparseMatrix(rows, cols): the new instance is the last of S.mats
NewMatrix(S, rows, cols) ==
    [S EXCEPT !.mats = Append(@, [rows |-> rows, cols |-> cols, data |-> <<>>])]

\* set_element with line 77 written "self.data[row].setdefault(col, value)"
set_element_setdefault(S, self, row, col, value) ==
    LET data == S.mats[self].data
        S1 == IF DictHas(data, row) THEN S
              ELSE [mats |-> [S.mats EXCEPT ![self].data =
                                  DictSet(data, row, Len(S.heap) + 1)],
                    heap |-> Append(S.heap, <<>>)]
        addr == DictGet(S1.mats[self].data, row, 0)
    IN  IF DictHas(S1.heap[addr], col) THEN S1
        ELSE [S1 EXCEPT !.heap[addr] = DictSet(@, col, value)]

\* self.data.get(row, {}).get(col, 0)
get_element(S, self, row, col) ==
    LET data == S.mats[self].data
    IN  IF DictHas(data, row)
        THEN DictGet(S.heap[DictGet(data, row, 0)], col, 0)
        ELSE 0

\* if row not in self.data: self.data[row] = {};  self.data[row][col] = value
set_element(S, self, row, col, value) ==
    LET data == S.mats[self].data
        S1 == IF DictHas(data, row) THEN S
              ELSE [mats |-> [S.mats EXCEPT ![self].data =
                                  DictSet(data, row, Len(S.heap) + 1)],
                    heap |-> Append(S.heap, <<>>)]
        addr == DictGet(S1.mats[self].data, row, 0)
    IN  [S1 EXCEPT !.heap[addr] = DictSet(@, col, value)]

\* the <<row, col>> keys of a matrix in the order of
\* "for row in m.data: for col in m.data[row]"
RECURSIVE EntryKeysFrom(_, _, _)
EntryKeysFrom(S, data, i) ==
    IF i > Len(data) THEN <<>>
    ELSE LET row == data[i][1]
             cols == DictKeys(S.heap[data[i][2]])
         IN  [j \in 1..Len(cols) |-> <<row, cols[j]>>] \o EntryKeysFrom(S, data, i + 1)

EntryKeys(S, m) == EntryKeysFrom(S, S.mats[m].data, 1)

\* lines 97-99 (and 125-127): result[row][col] = self[row][col] for every
\* stored key of self, from the i-th key on
RECURSIVE CopyLoop(_, _, _, _, _)
CopyLoop(S, result, self, keys, i) ==
    IF i > Len(keys) THEN S
    ELSE LET row == keys[i][1]
             col == keys[i][2]
         IN  CopyLoop(set_element(S, result, row, col, get_element(S, self, row, col)),
                      result, self, keys, i + 1)

\* AddLoop with line 103 storing matrix's value instead of accumulating it
RECURSIVE AddLoop_overwrite(_, _, _, _, _)
AddLoop_overwrite(S, result, matrix, keys, i) ==
    IF i > Len(keys) THEN S
    ELSE LET row == keys[i][1]
             col == keys[i][2]
         IN  AddLoop_overwrite(set_element(S, result, row, col,
                                           get_element(S, matrix, row, col)),
                               result, matrix, keys, i + 1)

\* lines 101-103: result[row][col] = result.get(row, col) + matrix.get(row, col)
RECURSIVE AddLoop(_, _, _, _, _)
AddLoop(S, result, matrix, keys, i) ==
    IF i > Len(keys) THEN S
    ELSE LET row == keys[i][1]
             col == keys[i][2]
         IN  AddLoop(set_element(S, result, row, col,
                                 get_element(S, result, row, col)
                                     + get_element(S, matrix, row, col)),
                     result, matrix, keys, i + 1)

\* SubLoop with the operands of line 131's subtraction swapped
RECURSIVE SubLoop_swapped(_, _, _, _, _)
SubLoop_swapped(S, result, matrix, keys, i) ==
    IF i > Len(keys) THEN S
    ELSE LET row == keys[i][1]
             col == keys[i][2]
         IN  SubLoop_swapped(set_element(S, result, row, col,
                                         get_element(S, matrix, row, col)
                                             - get_element(S, result, row, col)),
                             result, matrix, keys, i + 1)

\* lines 129-131: result[row][col] = result.get(row, col) - matrix.get(row, col)
RECURSIVE SubLoop(_, _, _, _, _)
SubLoop(S, result, matrix, keys, i) ==
    IF i > Len(keys) THEN S
    ELSE LET row == keys[i][1]
             col == keys[i][2]
         IN  SubLoop(set_element(S, result, row, col,
                                 get_element(S, result, row, col)
                                     - get_element(S, matrix, row, col)),
                     result, matrix, keys, i + 1)

\* what a method call leaves behind: the store, and the instance it returned
\* (0 when it raised)
Returned(S, result) == [status |-> "ok", S |-> S, result |-> result]

Raised(S) == [status |-> "ValueError", S |-> S, result |-> 0]

\* add with line 92's "or" written "and"
add_and(S, self, matrix) ==
    IF S.mats[self].rows # S.mats[matrix].rows /\ S.mats[self].cols # S.mats[matrix].cols
    THEN Raised(S)
    ELSE LET S0 == NewMatrix(S, S.mats[self].rows, S.mats[self].cols)
             result == Len(S0.mats)
             S1 == CopyLoop(S0, result, self, EntryKeys(S0, self), 1)
             S2 == AddLoop(S1, result, matrix, EntryKeys(S1, matrix), 1)
         IN  Returned(S2, result)

\* add with lines 97-99 written "result.data = dict(self.data)": the result
\* holds self's inner dictionaries instead of copies of them
add_shallow(S, self, matrix) ==
    IF S.mats[self].rows # S.mats[matrix].rows \/ S.mats[self].cols # S.mats[matrix].cols
    THEN Raised(S)
    ELSE LET S0 == NewMatrix(S, S.mats[self].rows, S.mats[self].cols)
             result == Len(S0.mats)
             S1 == [S0 EXCEPT !.mats[result].data = S0.mats[self].data]
             S2 == AddLoop(S1, result, matrix, EntryKeys(S1, matrix), 1)
         IN  Returned(S2, result)

\* self.add(matrix)
add(S, self, matrix) ==
    IF S.mats[self].rows # S.mats[matrix].rows \/ S.mats[self].cols # S.mats[matrix].cols
    THEN Raised(S)
    ELSE LET S0 == NewMatrix(S, S.mats[self].rows, S.mats[self].cols)
             result == Len(S0.mats)
             S1 == CopyLoop(S0, result, self, EntryKeys(S0, self), 1)
             S2 == AddLoop(S1, result, matrix, EntryKeys(S1, matrix), 1)
         IN  Returned(S2, result)

\* subtract with its second loop pasted from add, line 131's "-" left "+"
subtract_pasted(S, self, matrix) ==
    IF S.mats[self].rows # S.mats[matrix].rows \/ S.mats[self].cols # S.mats[matrix].cols
    THEN Raised(S)
    ELSE LET S0 == NewMatrix(S, S.mats[self].rows, S.mats[self].cols)
             result == Len(S0.mats)
             S1 == CopyLoop(S0, result, self, EntryKeys(S0, self), 1)
             S2 == AddLoop(S1, result, matrix, EntryKeys(S1, matrix), 1)
         IN  Returned(S2, result)

\* self.subtract(matrix)
subtract(S, self, matrix) ==
    IF S.mats[self].rows # S.mats[matrix].rows \/ S.mats[self].cols # S.mats[matrix].cols
    THEN Raised(S)
    ELSE LET S0 == NewMatrix(S, S.mats[self].rows, S.mats[self].cols)
             result == Len(S0.mats)
             S1 == CopyLoop(S0, result, self, EntryKeys(S0, self), 1)
             S2 == SubLoop(S1, result, matrix, EntryKeys(S1, matrix), 1)
         IN  Returned(S2, result)

\* lines 155-157: sum_product over k in range(self.cols), from k on
RECURSIVE SumProduct(_, _, _, _, _, _)
SumProduct(S, self, matrix, row, col, k) ==
    IF k >= S.mats[self].cols THEN 0
    ELSE get_element(S, self, row, k) * get_element(S, matrix, k, col)
             + SumProduct(S, self, matrix, row, col, k + 1)

\* ColLoop without line 158's test: zero dot products are stored too
RECURSIVE ColLoop_keep_zero(_, _, _, _, _, _)
ColLoop_keep_zero(S, result, self, matrix, row, col) ==
    IF col >= S.mats[matrix].cols THEN S
    ELSE ColLoop_keep_zero(set_element(S, result, row, col,
                                       SumProduct(S, self, matrix, row, col, 0)),
                           result, self, matrix, row, col + 1)

\* lines 154-159: for col in range(matrix.cols), from col on
RECURSIVE ColLoop(_, _, _, _, _, _)
ColLoop(S, result, self, matrix, row, col) ==
    IF col >= S.mats[matrix].cols THEN S
    ELSE LET sum_product == SumProduct(S, self, matrix, row, col, 0)
             S1 == IF sum_product # 0
                   THEN set_element(S, result, row, col, sum_product)
                   ELSE S
         IN  ColLoop(S1, result, self, matrix, row, col + 1)

\* line 153: for row in self.data, from the i-th row key on
RECURSIVE RowLoop(_, _, _, _, _, _)
RowLoop(S, result, self, matrix, rows, i) ==
    IF i > Len(rows) THEN S
    ELSE RowLoop(ColLoop(S, result, self, matrix, rows[i], 0),
                 result, self, matrix, rows, i + 1)

\* self.multiply(matrix)
multiply(S, self, matrix) ==
    IF S.mats[self].cols # S.mats[matrix].rows
    THEN Raised(S)
    ELSE LET S0 == NewMatrix(S, S.mats[self].rows, S.mats[matrix].cols)
             result == Len(S0.mats)
         IN  Returned(RowLoop(S0, result, self, matrix,
                              DictKeys(S0.mats[self].data), 1),
                      result)

\* ----------------------------------------------------------------- str

\* A character is its Unicode code point, ord(ch); the text of a file is
\* the characters open(file_path, 'r') decodes.

\* the ASCII characters chr(32) to chr(95), in order
Printable ==
    << " ", "!", "\"", "#", "$", "%", "&", "'", "(", ")", "*", "+", ",", "-",
       ".", "/", "0", "1", "2", "3", "4", "5", "6", "7", "8", "9", ":", ";",
       "<", "=", ">", "?", "@", "A", "B", "C", "D", "E", "F", "G", "H", "I",
       "J", "K", "L", "M", "N", "O", "P", "Q", "R", "S", "T", "U", "V", "W",
       "X", "Y", "Z", "[", "\\", "]", "^", "_" >>

\* the ASCII characters chr(97) to chr(122), in order
Lowercase ==
    << "a", "b", "c", "d", "e", "f", "g", "h", "i", "j", "k", "l", "m", "n",
       "o", "p", "q", "r", "s", "t", "u", "v", "w", "x", "y", "z" >>

\* ord(ch) for a character written as a string
Code(ch) ==
    IF ch = "\t" THEN 9
    ELSE IF ch = "\n" THEN 10
    ELSE IF ch = "\f" THEN 12
    ELSE IF ch = "\r" THEN 13
    ELSE IF \E i \in 1..Len(Lowercase) : Lowercase[i] = ch
    THEN 96 + (CHOOSE i \in 1..Len(Lowercase) : Lowercase[i] = ch)
    ELSE 31 + (CHOOSE i \in 1..Len(Printable) : Printable[i] = ch)

\* a str written as the sequence of its characters
Text(chars) == [i \in 1..Len(chars) |-> Code(chars[i])]

LF == Code("\n")

CR == Code("\r")

Underscore == Code("_")

PlusSign == Code("+")

MinusSign == Code("-")

DigitZero == Code("0")

EqualsSign == Code("=")

Comma == Code(",")

\* the characters str.isspace() is true of: the ones str.strip() drops
Whitespace ==
    { 9, 10, 11, 12, 13, 28, 29, 30, 31, 32, 133, 160, 5760, 8192, 8193,
      8194, 8195, 8196, 8197, 8198, 8199, 8200, 8201, 8202, 8232, 8233,
      8239, 8287, 12288 }

\* the characters int() drops around a number: chr(28) to chr(31) are
\* whitespace for str.strip() and not for int()
IntWhitespace == Whitespace \ (28 .. 31)

\* the Unicode decimal digits (category Nd) as runs <<first, last>> of code
\* points; the digit at code point c of a run has the value (c - first) % 10
DigitRuns ==
    { <<48, 57>>, <<1632, 1641>>, <<1776, 1785>>, <<1984, 1993>>,
      <<2406, 2415>>, <<2534, 2543>>, <<2662, 2671>>, <<2790, 2799>>,
      <<2918, 2927>>, <<3046, 3055>>, <<3174, 3183>>, <<3302, 3311>>,
      <<3430, 3439>>, <<3558, 3567>>, <<3664, 3673>>, <<3792, 3801>>,
      <<3872, 3881>>, <<4160, 4169>>, <<4240, 4249>>, <<6112, 6121>>,
      <<6160, 6169>>, <<6470, 6479>>, <<6608, 6617>>, <<6784, 6793>>,
      <<6800, 6809>>, <<6992, 7001>>, <<7088, 7097>>, <<7232, 7241>>,
      <<7248, 7257>>, <<42528, 42537>>, <<43216, 43225>>, <<43264, 43273>>,
      <<43472, 43481>>, <<43504, 43513>>, <<43600, 43609>>, <<44016, 44025>>,
      <<65296, 65305>>, <<66720, 66729>>, <<68912, 68921>>, <<69734, 69743>>,
      <<69872, 69881>>, <<69942, 69951>>, <<70096, 70105>>, <<70384, 70393>>,
      <<70736, 70745>>, <<70864, 70873>>, <<71248, 71257>>, <<71360, 71369>>,
      <<71472, 71481>>, <<71904, 71913>>, <<72016, 72025>>, <<72784, 72793>>,
      <<73040, 73049>>, <<73120, 73129>>, <<92768, 92777>>, <<92864, 92873>>,
      <<93008, 93017>>, <<120782, 120831>>, <<123200, 123209>>,
      <<123632, 123641>>, <<125264, 125273>>, <<130032, 130041>> }

IsDigit(c) == \E run \in DigitRuns : run[1] <= c /\ c <= run[2]

DigitValue(c) ==
    LET run == CHOOSE q \in DigitRuns : q[1] <= c /\ c <= q[2]
    IN  (c - run[1]) % 10

\* s[i:j] with Python's 0-based, end-exclusive, clamped indices (i, j >= 0)
Slice(s, i, j) ==
    LET lo == i + 1
        hi == IF j > Len(s) THEN Len(s) ELSE j
    IN  IF lo > hi THEN <<>> ELSE SubSeq(s, lo, hi)

\* s.lstrip(), s.rstrip() and s.strip() of the characters in `space`
RECURSIVE LStripOf(_, _)
LStripOf(s, space) ==
    IF s # <<>> /\ Head(s) \in space THEN LStripOf(Tail(s), space) ELSE s

RECURSIVE RStripOf(_, _)
RStripOf(s, space) ==
    IF s # <<>> /\ s[Len(s)] \in space
    THEN RStripOf(SubSeq(s, 1, Len(s) - 1), space)
    ELSE s

LStrip(s) == LStripOf(s, Whitespace)

RStrip(s) == RStripOf(s, Whitespace)

Strip(s) == RStrip(LStrip(s))

\* s.split(sep) for a one-character sep: the pieces between the separators,
\* empty pieces kept; `piece` is the piece being read
RECURSIVE SplitFrom(_, _, _, _)
SplitFrom(s, sep, i, piece) ==
    IF i > Len(s) THEN <<piece>>
    ELSE IF s[i] = sep THEN <<piece>> \o SplitFrom(s, sep, i + 1, <<>>)
    ELSE SplitFrom(s, sep, i + 1, Append(piece, s[i]))

Split(s, sep) == SplitFrom(s, sep, 1, <<>>)

\* sys.get_int_max_str_digits(): the most decimal digits CPython converts
\* between int and str; a conversion of more raises ValueError
MaxStrDigits == 4300

\* f"{n}" for an int: its decimal digits in ASCII, "-" before them when it
\* is negative; ok is FALSE where the conversion raises ValueError
IntToStr(n) ==
    LET RECURSIVE DigitsOf(_)
        DigitsOf(k) ==
            IF k < 10 THEN <<DigitZero + k>>
            ELSE DigitsOf(k \div 10) \o <<DigitZero + (k % 10)>>
        digits == DigitsOf(IF n < 0 THEN 0 - n ELSE n)
    IN  IF Len(digits) > MaxStrDigits THEN [ok |-> FALSE, text |-> <<>>]
        ELSE [ok |-> TRUE,
              text |-> IF n < 0 THEN <<MinusSign>> \o digits ELSE digits]

\* the value of a digit string that may hold underscores
RECURSIVE DigitsValue(_, _, _)
DigitsValue(s, i, acc) ==
    IF i > Len(s) THEN acc
    ELSE IF s[i] = Underscore THEN DigitsValue(s, i + 1, acc)
    ELSE DigitsValue(s, i + 1, 10 * acc + DigitValue(s[i]))

\* int(s) for a str: whitespace around it is dropped, one sign may lead,
\* and decimal digits follow, single underscores allowed between digits,
\* MaxStrDigits digits at most.  ok is FALSE where int raises ValueError.
ParseInt(s) ==
    LET t == RStripOf(LStripOf(s, IntWhitespace), IntWhitespace)
        signed == t # <<>> /\ t[1] \in {PlusSign, MinusSign}
        body == IF signed THEN Tail(t) ELSE t
        wellformed ==
            /\ body # <<>>
            /\ IsDigit(body[1])
            /\ IsDigit(body[Len(body)])
            /\ \A i \in 1..Len(body) : IsDigit(body[i]) \/ body[i] = Underscore
            /\ \A i \in 1..Len(body) - 1 :
                   ~(body[i] = Underscore /\ body[i + 1] = Underscore)
            /\ Cardinality({i \in 1..Len(body) : IsDigit(body[i])}) <= MaxStrDigits
    IN  IF ~wellformed THEN [ok |-> FALSE, value |-> 0]
        ELSE [ok |-> TRUE,
              value |-> IF signed /\ t[1] = MinusSign
                        THEN 0 - DigitsValue(body, 1, 0)
                        ELSE DigitsValue(body, 1, 0)]

\* ------------------------------------------------------- the text format

\* line 170: the literal text of f"rows={self.rows}\ncols={self.cols}\n"
RowsPrefix == Text(<<"r", "o", "w", "s", "=">>)

ColsPrefix == Text(<<"c", "o", "l", "s", "=">>)

\* line 173: the literal text of f"({row}, {col}, {self.data[row][col]})\n"
EntryOpen == Text(<<"(">>)

EntrySep == Text(<<",", " ">>)

EntryClose == Text(<<")", "\n">>)

\* line 173: f"({row}, {col}, {value})\n" for the stored keys from the i-th
\* on; ok is FALSE where formatting one of the numbers raises ValueError
RECURSIVE EntryText(_, _, _, _)
EntryText(S, self, keys, i) ==
    IF i > Len(keys) THEN [ok |-> TRUE, text |-> <<>>]
    ELSE LET row == IntToStr(keys[i][1])
             col == IntToStr(keys[i][2])
             value == IntToStr(DictGet(S.heap[DictGet(S.mats[self].data, keys[i][1], 0)],
                                       keys[i][2], 0))
             rest == EntryText(S, self, keys, i + 1)
         IN  IF ~(row.ok /\ col.ok /\ value.ok /\ rest.ok)
             THEN [ok |-> FALSE, text |-> <<>>]
             ELSE [ok |-> TRUE,
                   text |-> EntryOpen \o row.text \o EntrySep \o col.text
                                \o EntrySep \o value.text \o EntryClose \o rest.text]

\* str(self): status is "ValueError" where formatting a number raises
__str__(S, self) ==
    LET rows == IntToStr(S.mats[self].rows)
        cols == IntToStr(S.mats[self].cols)
        entries == EntryText(S, self, EntryKeys(S, self), 1)
    IN  IF ~(rows.ok /\ cols.ok /\ entries.ok)
        THEN [status |-> "ValueError", text |-> <<>>]
        ELSE [status |-> "ok",
              text |-> RowsPrefix \o rows.text \o <<LF>>
                           \o ColsPrefix \o cols.text \o <<LF>> \o entries.text]

\* line 34: the lines of the file, stripped, the blank ones dropped
RECURSIVE StrippedLines(_, _)
StrippedLines(pieces, i) ==
    IF i > Len(pieces) THEN <<>>
    ELSE LET line == Strip(pieces[i])
         IN  (IF line # <<>> THEN <<line>> ELSE <<>>) \o StrippedLines(pieces, i + 1)

\* line 33: open(file_path, 'r') reads with universal newlines: "\r\n" and
\* a lone "\r" reach the program as "\n"
RECURSIVE Newlines(_, _)
Newlines(text, i) ==
    IF i > Len(text) THEN <<>>
    ELSE IF text[i] = CR
    THEN <<LF>> \o Newlines(text, IF i < Len(text) /\ text[i + 1] = LF THEN i + 2 ELSE i + 1)
    ELSE <<text[i]>> \o Newlines(text, i + 1)

\* lines 33-34: "for line in file" ends a line at "\n" and nowhere else
ReadLines(text) == StrippedLines(Split(Newlines(text, 1), LF), 1)

\* lines 37-38: int(lines[i].split('=')[1]), with i counted from 1; ok is
\* FALSE where the expression raises IndexError or ValueError
HeaderValue(flines, i) ==
    IF i > Len(flines) THEN [ok |-> FALSE, value |-> 0]
    ELSE LET parts == Split(flines[i], EqualsSign)
         IN  IF Len(parts) < 2 THEN [ok |-> FALSE, value |-> 0]
             ELSE ParseInt(parts[2])

\* Inner with the slice written line[1:]
Inner_keep_last(line) == Slice(line, 1, Len(line))

\* line 46: line[1:-1]
Inner(line) == Slice(line, 1, Len(line) - 1)

\* line 46: row, col, value = map(int, line[1:-1].split(',')); ok is FALSE
\* where the statement raises ValueError
EntryValues(line) ==
    LET tokens == Split(Inner(line), Comma)
    IN  IF Len(tokens) # 3 \/ \E i \in 1..Len(tokens) : ~ParseInt(tokens[i]).ok
        THEN [ok |-> FALSE, row |-> 0, col |-> 0, value |-> 0]
        ELSE [ok |-> TRUE, row |-> ParseInt(tokens[1]).value,
              col |-> ParseInt(tokens[2]).value, value |-> ParseInt(tokens[3]).value]

\* EntryLoop with line 48 written "continue": a malformed line is skipped
RECURSIVE EntryLoop_skip(_, _, _, _, _)
EntryLoop_skip(S0, S, matrix, flines, i) ==
    IF i > Len(flines) THEN Returned(S, matrix)
    ELSE LET e == EntryValues(flines[i])
         IN  EntryLoop_skip(S0,
                            IF e.ok THEN set_element(S, matrix, e.row, e.col, e.value)
                            ELSE S,
                            matrix, flines, i + 1)

\* lines 44-49: the loop over lines[2:], from the i-th line on.  S0 is the
\* store from_file was called in: a raise leaves the caller with it, the
\* half-filled matrix being unreachable.
RECURSIVE EntryLoop(_, _, _, _, _)
EntryLoop(S0, S, matrix, flines, i) ==
    IF i > Len(flines) THEN Returned(S, matrix)
    ELSE LET e == EntryValues(flines[i])
         IN  IF ~e.ok THEN Raised(S0)
             ELSE EntryLoop(S0, set_element(S, matrix, e.row, e.col, e.value),
                            matrix, flines, i + 1)

\* line 33: open(file_path, 'r') raises FileNotFoundError where there is no
\* file at the path; the statement is outside the try of lines 36-40, and
\* the error reaches the caller as it is
NotFound(S) == [status |-> "FileNotFoundError", S |-> S, result |-> 0]

\* SparseMatrix.from_file(file_path): `there` says whether a file is at the
\* path, `text` is the text of the file
from_file(S, there, text) ==
    IF ~there THEN NotFound(S)
    ELSE LET flines == ReadLines(text)
             rows == HeaderValue(flines, 1)
             cols == HeaderValue(flines, 2)
         IN  IF ~rows.ok \/ ~cols.ok THEN Raised(S)
             ELSE LET S1 == NewMatrix(S, rows.value, cols.value)
                  IN  EntryLoop(S, S1, Len(S1.mats), flines, 3)

\* ------------------------------------------------- callers of the class

\* The caller is prompt_user's (lines 190-198): two operands, matrix1 and
\* matrix2, and one operator call on them, here on any pair of them; the
\* result may then be written to, or have the call's second operand
\* subtracted from it again.

NoLoad == [status |-> "none"]

\* matrix.set_element(row, col, value) per entry, in order
RECURSIVE SetAll(_, _, _, _)
SetAll(S, matrix, entries, i) ==
    IF i > Len(entries) THEN S
    ELSE SetAll(set_element(S, matrix, entries[i][1], entries[i][2], entries[i][3]),
                matrix, entries, i + 1)

\* a matrix built in store S: the constructor, then its set_element calls
Build(S, o) ==
    LET S0 == NewMatrix(S, o.rows, o.cols)
    IN  SetAll(S0, Len(S0.mats), o.entries, 1)

\* the latest value among `entries` per key: what the set_element calls of
\* Build were given
RECURSIVE Writes(_, _, _)
Writes(entries, i, w) ==
    IF i > Len(entries) THEN w
    ELSE Writes(entries, i + 1,
                DictSet(w, <<entries[i][1], entries[i][2]>>, entries[i][3]))

\* lines 190-191: matrix1 and matrix2 are loaded
Init ==
    /\ \E o1 \in OperandSet, o2 \in OperandSet :
           /\ store = Build(Build(EmptyStore, o1), o2)
           /\ written = <<Writes(o1.entries, 1, <<>>), Writes(o2.entries, 1, <<>>)>>
    /\ calls = <<>>
    /\ sets = 0
    /\ exists = FALSE
    /\ file = <<>>
    /\ saved = 0
    /\ lines = <<>>
    /\ loaded = NoLoad

Instances == 1..Len(store.mats)

\* m.set_element(row, col, value), on an operand before the call and on the
\* result after it
SetElement(m, row, col, value) ==
    /\ sets < MaxSets
    /\ ~exists /\ loaded = NoLoad
    /\ IF calls = <<>> THEN TRUE
       ELSE Len(calls) = 1 /\ m = calls[1].result
    /\ store' = set_element(store, m, row, col, value)
    /\ sets' = sets + 1
    /\ written' = [written EXCEPT ![m] = DictSet(@, <<row, col>>, value)]
    /\ UNCHANGED <<calls, exists, file, saved, lines, loaded>>

\* the bookkeeping of an operator call that left `r` behind
Called(op, self, matrix, r) ==
    /\ store' = r.S
    /\ calls' = Append(calls, [op |-> op, self |-> self, matrix |-> matrix,
                               status |-> r.status, result |-> r.result,
                               before |-> store])
    /\ written' = IF r.status = "ok" THEN Append(written, <<>>) ELSE written
    /\ UNCHANGED <<sets, exists, file, saved, lines, loaded>>

\* result = self.add(matrix)
CallAdd(self, matrix) ==
    /\ calls = <<>>
    /\ Called("add", self, matrix, add(store, self, matrix))

\* result = self.subtract(matrix)
CallSubtract(self, matrix) ==
    /\ calls = <<>>
    /\ Called("subtract", self, matrix, subtract(store, self, matrix))

\* result = self.multiply(matrix)
CallMultiply(self, matrix) ==
    /\ calls = <<>>
    /\ Called("multiply", self, matrix, multiply(store, self, matrix))

\* self.add(matrix).subtract(matrix): the second call of the chain
ChainSubtract ==
    /\ Len(calls) = 1
    /\ calls[1].op = "add"
    /\ calls[1].status = "ok"
    /\ written[calls[1].result] = <<>>
    /\ Called("subtract", calls[1].result, calls[1].matrix,
              subtract(store, calls[1].result, calls[1].matrix))

\* a line as its writer means it: well-formed of kind "rows" (rows=<int>),
\* "cols" (cols=<int>) or "entry" ((<int>,<int>,<int>), with key and value),
\* else "blank" or "bad"
Meant(kind, text, key, value) ==
    [kind |-> kind, text |-> text, key |-> key, value |-> value]

\* what the lines of str(m) mean
MeantByStr(S, m) ==
    LET keys == EntryKeys(S, m)
    IN  <<Meant("rows", <<>>, <<>>, S.mats[m].rows), Meant("cols", <<>>, <<>>, S.mats[m].cols)>>
            \o [j \in 1..Len(keys) |->
                    Meant("entry", <<>>, keys[j], get_element(S, m, keys[j][1], keys[j][2]))]

\* lines 218-219: file.write(str(m)).  Where str(m) raises, line 218 has
\* made the file and nothing is written to it.
Save(m) ==
    /\ loaded = NoLoad
    /\ file = <<>> /\ lines = <<>>
    /\ exists' = TRUE
    /\ LET r == __str__(store, m)
       IN  /\ file' = r.text
           /\ saved' = IF r.status = "ok" THEN m ELSE 0
           /\ lines' = IF r.status = "ok" THEN MeantByStr(store, m) ELSE <<>>
    /\ UNCHANGED <<store, calls, written, sets, loaded>>

\* lines 203-219: the result of the operator call is written to the output
\* file; a call that raised leaves nothing to write (line 221)
SaveResult ==
    /\ calls # <<>>
    /\ calls[Len(calls)].status = "ok"
    /\ Save(calls[Len(calls)].result)

Next ==
    \/ \E m \in Instances, row \in KeySet, col \in KeySet, value \in ValSet :
           SetElement(m, row, col, value)
    \/ \E self \in Instances, matrix \in Instances : CallAdd(self, matrix)
    \/ \E self \in Instances, matrix \in Instances : CallSubtract(self, matrix)
    \/ \E self \in Instances, matrix \in Instances : CallMultiply(self, matrix)
    \/ ChainSubtract
    \/ SaveResult

Spec == Init /\ [][Next]_vars

\* ------------------------------------------------ claims on the operators

Rows(S, m) == 0 .. S.mats[m].rows - 1

Cols(S, m) == 0 .. S.mats[m].cols - 1

SameShape(S, a, T, b) ==
    S.mats[a].rows = T.mats[b].rows /\ S.mats[a].cols = T.mats[b].cols

\* the caller has not written to instance m
Untouched(m) == written[m] = <<>>

CallIds == 1..Len(calls)

\* the <<row, col>> keys a matrix stores, as a set
StoredKeys(S, m) == { EntryKeys(S, m)[j] : j \in 1..Len(EntryKeys(S, m)) }

\* C1: for operands of equal rows and cols, add returns a matrix of the same
\* dimensions whose element at every in-range (r, c) is the sum of the
\* operands' elements there.
C1_AddIsElementwiseSum ==
    \A i \in CallIds :
        LET c == calls[i]
            B == c.before
        IN  (c.op = "add" /\ SameShape(B, c.self, B, c.matrix)) =>
                /\ c.status = "ok"
                /\ SameShape(store, c.result, B, c.self)
                /\ Untouched(c.result) =>
                       \A r \in Rows(B, c.self), k \in Cols(B, c.self) :
                           get_element(store, c.result, r, k)
                               = get_element(B, c.self, r, k)
                                     + get_element(B, c.matrix, r, k)

\* an add of two distinct operands that both hold a nonzero value at one
\* in-range key
C1_Witness ==
    \E i \in CallIds :
        LET c == calls[i]
            B == c.before
        IN  /\ c.op = "add" /\ c.status = "ok" /\ c.self # c.matrix
            /\ Untouched(c.result)
            /\ \E r \in Rows(B, c.self), k \in Cols(B, c.self) :
                   /\ get_element(B, c.self, r, k) # 0
                   /\ get_element(B, c.matrix, r, k) # 0

\* C2: for operands of equal rows and cols, subtract returns a matrix of the
\* same dimensions whose element at every (r, c) is self's element minus
\* matrix's, also where only matrix stores a value.
C2_SubtractIsElementwiseDifference ==
    \A i \in CallIds :
        LET c == calls[i]
            B == c.before
        IN  (c.op = "subtract" /\ SameShape(B, c.self, B, c.matrix)) =>
                /\ c.status = "ok"
                /\ SameShape(store, c.result, B, c.self)
                /\ Untouched(c.result) =>
                       \A r \in QuerySet, k \in QuerySet :
                           get_element(store, c.result, r, k)
                               = get_element(B, c.self, r, k)
                                     - get_element(B, c.matrix, r, k)

\* a subtract where a key is stored only in the second operand, with a
\* nonzero value
C2_Witness ==
    \E i \in CallIds :
        LET c == calls[i]
            B == c.before
        IN  /\ c.op = "subtract" /\ c.status = "ok"
            /\ Untouched(c.result)
            /\ \E r \in QuerySet, k \in QuerySet :
                   /\ <<r, k>> \notin StoredKeys(B, c.self)
                   /\ get_element(B, c.matrix, r, k) # 0
                   /\ get_element(store, c.result, r, k)
                          = 0 - get_element(B, c.matrix, r, k)

\* the sum over k in 0..n-1 of a[i][k] * b[k][j], as the claim writes it
RECURSIVE Sigma(_, _, _, _, _, _)
Sigma(S, a, b, i, j, n) ==
    IF n <= 0 THEN 0
    ELSE Sigma(S, a, b, i, j, n - 1)
             + get_element(S, a, i, n - 1) * get_element(S, b, n - 1, j)

\* the values a matrix stores, zeros included
StoredValues(S, m) ==
    { get_element(S, m, k[1], k[2]) : k \in StoredKeys(S, m) }

\* C3: multiply of an m x n by a p x q matrix raises exactly when n # p;
\* otherwise the result is m x q, its element at every in-range (i, j) is
\* the dot product of row i and column j, and it stores no zero.
C3_MultiplyIsDotProduct ==
    \A i \in CallIds :
        LET c == calls[i]
            B == c.before
        IN  c.op = "multiply" =>
                /\ (c.status = "ValueError") <=> (B.mats[c.self].cols # B.mats[c.matrix].rows)
                /\ c.status = "ok" =>
                       /\ store.mats[c.result].rows = B.mats[c.self].rows
                       /\ store.mats[c.result].cols = B.mats[c.matrix].cols
                       /\ Untouched(c.result) =>
                              /\ \A r \in Rows(B, c.self), k \in Cols(B, c.matrix) :
                                     get_element(store, c.result, r, k)
                                         = Sigma(B, c.self, c.matrix, r, k,
                                                 B.mats[c.self].cols)
                              /\ 0 \notin StoredValues(store, c.result)

\* a multiply where the products of a stored row cancel to a zero dot product
C3_Witness ==
    \E i \in CallIds :
        LET c == calls[i]
            B == c.before
        IN  /\ c.op = "multiply" /\ c.status = "ok"
            /\ Untouched(c.result)
            /\ \E r \in Rows(B, c.self), k \in Cols(B, c.matrix) :
                   /\ DictHas(B.mats[c.self].data, r)
                   /\ \E n \in Cols(B, c.self) :
                          get_element(B, c.self, r, n) * get_element(B, c.matrix, n, k) # 0
                   /\ Sigma(B, c.self, c.matrix, r, k, B.mats[c.self].cols) = 0
                   /\ get_element(store, c.result, r, k) = 0

\* C6: a.add(b).subtract(b) has a's rows and cols and a's value at every
\* (r, c).
C6_AddThenSubtractRoundTrip ==
    (/\ Len(calls) = 2
     /\ calls[1].op = "add" /\ calls[1].status = "ok"
     /\ calls[2].op = "subtract"
     /\ calls[2].self = calls[1].result
     /\ calls[2].matrix = calls[1].matrix) =>
        LET a == calls[1].self
            B == calls[1].before
        IN  /\ calls[2].status = "ok"
            /\ SameShape(store, calls[2].result, B, a)
            /\ \A r \in QuerySet, k \in QuerySet :
                   get_element(store, calls[2].result, r, k) = get_element(B, a, r, k)

\* the chain on two distinct operands, the second storing a nonzero value at
\* a key the first does not store, and the first storing one too
C6_Witness ==
    /\ Len(calls) = 2
    /\ calls[2].status = "ok"
    /\ calls[2].self = calls[1].result
    /\ calls[1].self # calls[1].matrix
    /\ LET B == calls[1].before
       IN  /\ \E key \in StoredKeys(B, calls[1].matrix) :
                  /\ key \notin StoredKeys(B, calls[1].self)
                  /\ get_element(B, calls[1].matrix, key[1], key[2]) # 0
           /\ \E key \in StoredKeys(B, calls[1].self) :
                  get_element(B, calls[1].self, key[1], key[2]) # 0

\* C9: add and subtract raise exactly when the operands differ in rows or in
\* cols, and a call that raised returned no instance and created none.
C9_AddSubtractDimensionCheck ==
    \A i \in CallIds :
        LET c == calls[i]
            B == c.before
        IN  c.op \in {"add", "subtract"} =>
                /\ (c.status = "ValueError") <=> ~SameShape(B, c.self, B, c.matrix)
                /\ c.status = "ValueError" =>
                       /\ c.result = 0
                       /\ i = Len(calls) => store = B

\* an add or subtract that raised on operands of equal rows and unequal cols
C9_Witness ==
    \E i \in CallIds :
        LET c == calls[i]
            B == c.before
        IN  /\ c.op \in {"add", "subtract"}
            /\ c.status = "ValueError"
            /\ B.mats[c.self].rows = B.mats[c.matrix].rows
            /\ B.mats[c.self].cols # B.mats[c.matrix].cols

\* the addresses of the inner dictionaries of instance m
Addresses(S, m) == { S.mats[m].data[j][2] : j \in 1..Len(S.mats[m].data) }

\* C10: an operator call, whether it returns or raises, leaves every
\* instance that existed before it, and every dictionary they hold, as it
\* was; the instance it returns is a new one whose dictionaries are new
\* too, so that writing to it later changes no operand.
C10_OperatorsDoNotMutateOperands ==
    \A i \in CallIds :
        LET c == calls[i]
            B == c.before
        IN  /\ \A m \in 1..Len(B.mats) : store.mats[m] = B.mats[m]
            /\ \A a \in 1..Len(B.heap) : store.heap[a] = B.heap[a]
            /\ c.status = "ok" =>
                   /\ c.result = Len(B.mats) + 1
                   /\ \A a \in Addresses(store, c.result) : a > Len(B.heap)

\* a call with one instance as both operands, whose result was then written
\* at a key the operand stores, to a value the operand does not hold there
C10_Witness ==
    \E i \in CallIds :
        LET c == calls[i]
        IN  /\ c.status = "ok"
            /\ c.self = c.matrix
            /\ \E key \in StoredKeys(c.before, c.self) :
                   /\ DictHas(written[c.result], key)
                   /\ get_element(store, c.result, key[1], key[2])
                          # get_element(store, c.self, key[1], key[2])

\* ------------------------------------------------ callers of the text format

\* The caller builds a matrix and writes str() of it to a file, as
\* prompt_user does with its result (lines 218-219), or writes a file by
\* hand, line by line, or makes an empty file, or makes none; from_file
\* then reads the file at the path.

\* the matrices a caller builds before writing them out: the operands above,
\* and one with a zero value, a negative key, a key written twice and
\* numbers of two digits
TextOperandSet ==
    OperandSet \cup
        { [rows |-> 10, cols |-> 0,
           entries |-> << <<3, -2, 0>>, <<0, 0, -17>>, <<3, -2, 5>>, <<3, 12, 0>> >>] }

\* the coordinates get_element is asked for after reading a file
TextQuerySet == -2 .. 3

\* an entry line in ASCII with `sep` after each comma
EntryLine(row, col, value, sep) ==
    Meant("entry",
          Text(<<"(">>) \o IntToStr(row).text \o Text(<<",">>) \o sep
              \o IntToStr(col).text \o Text(<<",">>) \o sep
              \o IntToStr(value).text \o Text(<<")">>),
          <<row, col>>, value)

RowsLine == Meant("rows", Text(<<"r", "o", "w", "s", "=", "2">>), <<>>, 2)

\* cols=3 with a no-break space before the number and a form feed after it
ColsLine ==
    Meant("cols", Text(<<"c", "o", "l", "s", "=">>) \o <<160>> \o Text(<<"3", "\f">>),
          <<>>, 3)

\* a space, a form feed, a file separator and a no-break space
BlankLine == Meant("blank", Text(<<" ", "\f">>) \o <<28, 160>>, <<>>, 0)

\* the lines a caller writes where a header is due: the two headers, a blank
\* line, a key other than rows or cols, no "=", no number, an entry
HeaderLines ==
    { RowsLine, ColsLine, BlankLine,
      Meant("bad", Text(<<"x", "=", "+", "1", "_", "0">>), <<>>, 0),
      Meant("bad", Text(<<"r", "o", "w", "s">>), <<>>, 0),
      Meant("bad", Text(<<"r", "o", "w", "s", "=", "x">>), <<>>, 0),
      EntryLine(0, 1, 5, <<>>) }

\* the lines a caller writes where an entry is due: entries with and without
\* a space after the commas, two of them at one key, the second in
\* Arabic-Indic digits (1632 is its zero) and with an ideographic space, a
\* blank line, two and four tokens, a token that is no number, a token with
\* a file separator before its digit, an empty token
EntryLines ==
    { EntryLine(0, 1, -1, Text(<<" ">>)),
      Meant("entry", Text(<<"(", "0", ",">>) \o <<12288, 1633>> \o Text(<<",">>)
                         \o <<1637>> \o Text(<<")">>), <<0, 1>>, 5),
      EntryLine(1, 0, 10, <<>>),
      BlankLine,
      Meant("bad", Text(<<"(", "1", ",", "1", ")">>), <<>>, 0),
      Meant("bad", Text(<<"(", "1", ",", "2", ",", "3", ",", "4", ")">>), <<>>, 0),
      Meant("bad", Text(<<"(", "0", ",", "a", ",", "2", ")">>), <<>>, 0),
      Meant("bad", Text(<<"(", "0", ",">>) \o <<28>> \o Text(<<"1", ",", "2", ")">>), <<>>, 0),
      Meant("bad", Text(<<"(", "1", ",", ",", "1", ")">>), <<>>, 0) }

\* the ways a writer ends a line: "\n", "\r" and "\r\n"
LineEnds == { <<LF>>, <<CR>>, <<CR, LF>> }

\* the line end a file has used so far
LineEndOf(text) ==
    IF Len(text) >= 2 /\ text[Len(text) - 1] = CR /\ text[Len(text)] = LF
    THEN <<CR, LF>>
    ELSE <<text[Len(text)]>>

\* the lines that are not blank, in order
RECURSIVE NonBlank(_, _)
NonBlank(ls, i) ==
    IF i > Len(ls) THEN <<>>
    ELSE (IF ls[i].kind # "blank" THEN <<ls[i]>> ELSE <<>>) \o NonBlank(ls, i + 1)

\* the latest value per key among the entry lines after the two headers
RECURSIVE MeantWrites(_, _, _)
MeantWrites(ls, i, w) ==
    IF i > Len(ls) THEN w
    ELSE MeantWrites(ls, i + 1,
                     IF ls[i].kind = "entry" THEN DictSet(w, ls[i].key, ls[i].value) ELSE w)

InitText ==
    /\ \/ store = EmptyStore /\ written = <<>>
       \/ \E o \in TextOperandSet :
              /\ store = Build(EmptyStore, o)
              /\ written = <<Writes(o.entries, 1, <<>>)>>
    /\ calls = <<>>
    /\ sets = 0
    /\ exists = FALSE
    /\ file = <<>>
    /\ saved = 0
    /\ lines = <<>>
    /\ loaded = NoLoad

\* the caller makes an empty file where there was none
CreateFile ==
    /\ loaded = NoLoad
    /\ ~exists
    /\ exists' = TRUE
    /\ UNCHANGED <<store, calls, written, sets, file, saved, lines, loaded>>

\* the caller writes one more line to the file: to a file of its own, or
\* after the lines of a saved matrix, with the line end the file has used
AppendLine(l, end) ==
    /\ loaded = NoLoad
    /\ Len(lines) < MaxLines
    /\ file # <<>> \/ store = EmptyStore
    /\ file # <<>> => end = LineEndOf(file)
    /\ exists' = TRUE
    /\ file' = file \o l.text \o end
    /\ lines' = Append(lines, l)
    /\ saved' = 0
    /\ UNCHANGED <<store, calls, written, sets, loaded>>

\* matrix = SparseMatrix.from_file(file)
Load ==
    /\ loaded = NoLoad
    /\ LET r == from_file(store, exists, file)
       IN  /\ store' = r.S
           /\ loaded' = [status |-> r.status, result |-> r.result, source |-> saved,
                       before |-> store, existed |-> exists]
           /\ written' = IF r.status = "ok"
                         THEN Append(written, MeantWrites(NonBlank(lines, 1), 3, <<>>))
                         ELSE written
    /\ UNCHANGED <<calls, sets, exists, file, saved, lines>>

NextText ==
    \/ \E m \in Instances, row \in KeySet, col \in KeySet, value \in ValSet :
           SetElement(m, row, col, value)
    \/ \E m \in Instances : Save(m)
    \/ CreateFile
    \/ \E l \in (IF Len(NonBlank(lines, 1)) < 2 THEN HeaderLines ELSE EntryLines),
          end \in LineEnds :
           AppendLine(l, end)
    \/ Load

SpecText == InitText /\ [][NextText]_vars

\* --------------------------------------------- claims on the text format

\* C4: get_element of any instance, at any coordinates, in range or not, is
\* the value of the latest set_element call made on the instance for those
\* coordinates (from_file makes one per entry line, in file order), and 0
\* if there was none.
C4_GetReturnsLatestSet ==
    \A m \in Instances :
        \A r \in TextQuerySet, k \in TextQuerySet :
            get_element(store, m, r, k) = DictGet(written[m], <<r, k>>, 0)

\* a file read whose entry lines give one key two different values
C4_Witness ==
    /\ loaded.status = "ok"
    /\ LET nb == NonBlank(lines, 1)
       IN  \E i \in 3..Len(nb), j \in 3..Len(nb) :
               /\ i < j
               /\ nb[i].kind = "entry" /\ nb[j].kind = "entry"
               /\ nb[i].key = nb[j].key
               /\ nb[i].value # nb[j].value
               /\ get_element(store, loaded.result, nb[j].key[1], nb[j].key[2])
                      = nb[j].value

\* the <<key, value>> pairs a matrix stores with a nonzero value
NonzeroEntries(S, m) ==
    { <<key, get_element(S, m, key[1], key[2])>> :
          key \in { q \in StoredKeys(S, m) : get_element(S, m, q[1], q[2]) # 0 } }

\* C5: from_file of the text str(m) returns, and returns a matrix with m's
\* rows and cols and m's nonzero entries.
C5_TextRoundTrip ==
    (loaded.status # "none" /\ loaded.source # 0) =>
        /\ loaded.status = "ok"
        /\ SameShape(store, loaded.result, store, loaded.source)
        /\ NonzeroEntries(store, loaded.result) = NonzeroEntries(store, loaded.source)

\* a round trip of a matrix that holds a negative value, a value of two
\* digits and a stored zero
C5_Witness ==
    /\ loaded.status # "none"
    /\ loaded.source # 0
    /\ \E v \in StoredValues(store, loaded.source) : v < 0
    /\ \E v \in StoredValues(store, loaded.source) : v < -9 \/ v > 9
    /\ 0 \in StoredValues(store, loaded.source)

\* C7: from_file of a file that is there, an empty one included, raises
\* ValueError and leaves no matrix behind when the file has fewer than two
\* non-blank lines or a non-blank line after the second that is no
\* well-formed entry, whatever came before it.  (Where there is no file,
\* there is no input to read: open raises FileNotFoundError.)
C7_MalformedFileRaises ==
    LET nb == NonBlank(lines, 1)
    IN  (/\ loaded.status # "none"
         /\ loaded.existed
         /\ \/ Len(nb) < 2
            \/ \E i \in 3..Len(nb) : nb[i].kind # "entry") =>
            /\ loaded.status = "ValueError"
            /\ loaded.result = 0
            /\ store = loaded.before

\* a read that raised on a malformed entry line that follows two headers
\* and a well-formed entry line
C7_Witness ==
    LET nb == NonBlank(lines, 1)
    IN  /\ loaded.status = "ValueError"
        /\ Len(nb) >= 4
        /\ nb[1].kind = "rows" /\ nb[2].kind = "cols"
        /\ nb[3].kind = "entry"
        /\ nb[4].kind = "bad"

\* C8: from_file raises when the first non-blank line is not rows=<int> or
\* the second is not cols=<int>.
C8_HeaderFormRequired ==
    LET nb == NonBlank(lines, 1)
    IN  (/\ loaded.status # "none"
         /\ \/ Len(nb) >= 1 /\ nb[1].kind # "rows"
            \/ Len(nb) >= 2 /\ nb[2].kind # "cols") =>
            loaded.status = "ValueError"

====
